---- MODULE Spec2Model ----
(***************************************************************************)
(* Model of src/server.py: the restaurants table behind the JSON API, and  *)
(* of the marker placement of src/generate_maps.py.                        *)
(*                                                                         *)
(* The server is a socketserver.TCPServer (no threading mix-in), so one    *)
(* request handler runs from start to finish before the next request is    *)
(* accepted: every handler is one action.  A handler opens its own         *)
(* psycopg2 connection; psycopg2 starts a transaction at the first         *)
(* statement and nothing is visible in the table before conn.commit().     *)
(* A handler that raises never commits, so its statements are rolled back  *)
(* when the connection is dropped; values drawn from the SERIAL sequence   *)
(* are not given back by a rollback.                                       *)
(* SpecSteps follows the two list handlers one statement at a time with   *)
(* another session reading the table; SpecDerive and SpecMaps are the     *)
(* map script's function and its loops.                                   *)
(*                                                                         *)
(* JSON values: a JSON object is a function from its keys to values, a     *)
(* JSON string is a string, JSON null is NULL, any other JSON value that   *)
(* stands where an object is expected is NotADict.                         *)
(***************************************************************************)
EXTENDS Integers, Sequences, FiniteSets, TLC

\* ------------------------------------------------------------------ bounds
MaxId   == 2    \* requests are accepted while the sequence stays <= MaxId
MaxLen  == 2    \* longest "restaurants" list of a bulk or sync body
MaxTime == 1    \* the database clock stops at MaxTime
MaxBatch == 3   \* most restaurants of one zone
MaxDigest == 999 \* digests 0..MaxDigest and their complements are tried
MaxSeq == 4     \* a sync of what list returned is accepted while the sequence stays <= MaxSeq

\* ------------------------------------------------------- column widths
ZONE_LEN    == 10
NAME_LEN    == 255
ADDRESS_LEN == 500
TYPE_LEN    == 100
PHONE_LEN   == 50

\* ------------------------------------- generate_pseudo_coordinates' numbers
HEX_DIGITS   == 8      \* hexdigest()[:8]
HEX_BASE     == 16     \* int(..., 16)
DEGREES      == 360    \* hash_value % 360
RADIUS_STEPS == 1000   \* hash_value % 1000
RADIUS_UNIT  == 50000  \* ... / 50000

\* ------------------------------------------------------------ JSON values
NULL     == "<null>"
NotADict == [nondict |-> TRUE]
Malformed == [malformed |-> TRUE]
EmptyDict == [k \in {} |-> NULL]

IsDict(v) == "nondict" \notin DOMAIN v /\ "malformed" \notin DOMAIN v

\* dict.get(key, default)
Get(d, key, default) == IF key \in DOMAIN d THEN d[key] ELSE default

Columns == {"zone", "name", "address", "type", "phone"}

\* The drafts requests are made of: every field defaulted; every field given,
\* with a caller's id; name or address missing; an empty name; nulls; a zone
\* wider than its column; a JSON value that is no object.
DraftA == [name |-> "A", address |-> "X"]
DraftB == [id |-> 1, zone |-> "2", name |-> "B", address |-> "X",
           type |-> "Cafe", phone |-> "07"]
DraftNoName == [address |-> "X"]

ListDrafts == { DraftA, DraftB, DraftNoName }

UpdateDrafts ==
  ListDrafts \cup
  { [name |-> "A", address |-> "X", type |-> NULL, phone |-> NULL],
    [zone |-> NULL, name |-> "A", address |-> "X"] }

Drafts ==
  UpdateDrafts \cup
  { [name |-> "A"],
    [name |-> "", address |-> "X"],
    [zone |-> "12345678901", name |-> "B", address |-> "X"],
    NotADict }

\* Strings in code point order, for ORDER BY.
Alphabet == << "", "07", "1", "12345678901", "2", "A", "B", "Cafe", "Restaurant", "X" >>

Collate(s) == CHOOSE i \in 1..Len(Alphabet) : Alphabet[i] = s

\* Last segment of a request path, as characters: self.path.split('/')[-1]
DigitVal == [c \in {"0", "1", "2", "3", "4", "5", "6", "7", "8", "9"} |->
               CASE c = "0" -> 0 [] c = "1" -> 1 [] c = "2" -> 2 [] c = "3" -> 3
                 [] c = "4" -> 4 [] c = "5" -> 5 [] c = "6" -> 6 [] c = "7" -> 7
                 [] c = "8" -> 8 [] c = "9" -> 9]

DigitOf == [n \in 0..9 |-> CHOOSE c \in DOMAIN DigitVal : DigitVal[c] = n]

Segments ==
  { <<DigitOf[n]>> : n \in 1..MaxId } \cup { <<"0", "1">>, <<"a">> }

\* int(s): the value of a decimal numeral, ValueError otherwise.
RECURSIVE DecimalValue(_)
DecimalValue(s) ==
  IF Len(s) = 0 THEN 0
  ELSE 10 * DecimalValue(SubSeq(s, 1, Len(s) - 1)) + DigitVal[s[Len(s)]]

ParseInt(s) ==
  IF Len(s) > 0 /\ \A i \in 1..Len(s) : s[i] \in DOMAIN DigitVal
  THEN [exc |-> "none", value |-> DecimalValue(s)]
  ELSE [exc |-> "ValueError", value |-> 0]


\* ------------------------------------------------------------------ state
VARIABLES
  HAS_DB,              \* psycopg2 could be imported
  DATABASE_URL,        \* the connection string, "" when the variable is set empty
  table_exists,        \* the restaurants table exists in the database
  restaurants,         \* the committed rows of the table
  restaurants_id_seq,  \* last value of the sequence behind id SERIAL
  now,                 \* the database clock
  req,                 \* the request handled last
  resp,                \* the response sent to it: status and JSON object
  conn,                \* that handler's connection when it sent the response
  inflight,            \* a list request followed statement by statement
  observed,            \* what another session's SELECT read from the table
  zones,               \* generate_maps.py: the restaurants read, by zone
  work,                \* the maps still to draw: << caller, zone >> each
  idx,                 \* enumerate()'s index into the zone being drawn
  call,                \* arguments of the last generate_pseudo_coordinates
  coords               \* what that call returned

srvvars == << HAS_DB, DATABASE_URL, table_exists, restaurants, restaurants_id_seq,
              now, req, resp, conn >>

stepvars == << inflight, observed >>

mapvars == << zones, work, idx, call, coords >>

vars == << srvvars, stepvars, mapvars >>

Url == "postgresql://"

Ids(rows) == { r.id : r \in rows }

\* ------------------------------------------------------------ the database
\* A transaction: the rows it sees, the sequence, the exception raised so far,
\* the number of statements sent, the statement at which the store fails
\* (0: never), the transaction's timestamp and the last statement's result.
Begin(faultAt) ==
  [rows |-> restaurants, seq |-> restaurants_id_seq, exc |-> "none", n |-> 0,
   faultAt |-> faultAt, t |-> now, result |-> {}, rowcount |-> 0]

\* cur.execute reaches the server: the connection may drop, the table may be
\* missing.
Send(tx) ==
  IF tx.exc # "none" THEN tx
  ELSE IF tx.n + 1 = tx.faultAt
       THEN [tx EXCEPT !.n = @ + 1, !.exc = "OperationalError"]
  ELSE IF ~table_exists
       THEN [tx EXCEPT !.n = @ + 1, !.exc = "ProgrammingError"]
  ELSE [tx EXCEPT !.n = @ + 1]

Fits(v, width) == v = NULL \/ Len(v) <= width

\* The literals are coerced to the column types when the statement is planned.
TooLong(vals) ==
  ~ ( /\ Fits(vals.zone, ZONE_LEN)
      /\ Fits(vals.name, NAME_LEN)
      /\ Fits(vals.address, ADDRESS_LEN)
      /\ Fits(vals.type, TYPE_LEN)
      /\ Fits(vals.phone, PHONE_LEN) )

\* zone, name and address are NOT NULL; type and phone are not.
NotNullViolated(vals) ==
  vals.zone = NULL \/ vals.name = NULL \/ vals.address = NULL

NewRow(id, vals, t) ==
  [id |-> id, zone |-> vals.zone, name |-> vals.name, address |-> vals.address,
   type |-> vals.type, phone |-> vals.phone, created_at |-> t]

\* nextval('restaurants_id_seq')
NextVal(seq) == seq + 1

\* INSERT INTO restaurants (zone, name, address, type, phone) VALUES (...)
\*   [RETURNING id, zone, name, address, type, phone]
ExecInsert(tx0, vals) ==
  LET tx == Send(tx0) IN
  IF tx.exc # "none" THEN tx
  ELSE IF TooLong(vals) THEN [tx EXCEPT !.exc = "DataError"]
  ELSE LET id == NextVal(tx.seq) IN
       IF NotNullViolated(vals)
       THEN [tx EXCEPT !.seq = id, !.exc = "IntegrityError"]
       ELSE [tx EXCEPT !.seq = id,
                       !.rows = @ \cup { NewRow(id, vals, tx.t) },
                       !.result = { NewRow(id, vals, tx.t) },
                       !.rowcount = 1]

\* Mutant: the DELETE removes nothing.
ExecDeleteAll_KeepsRows(tx0) ==
  LET tx == Send(tx0) IN
  IF tx.exc # "none" THEN tx
  ELSE [tx EXCEPT !.result = {}, !.rowcount = 0]

\* Mutant: the DELETE restarts the sequence, as TRUNCATE ... RESTART IDENTITY.
ExecDeleteAll_Restart(tx0) ==
  LET tx == Send(tx0) IN
  IF tx.exc # "none" THEN tx
  ELSE [tx EXCEPT !.rows = {}, !.seq = 0, !.result = {},
                  !.rowcount = Cardinality(tx.rows)]

\* DELETE FROM restaurants
ExecDeleteAll(tx0) ==
  LET tx == Send(tx0) IN
  IF tx.exc # "none" THEN tx
  ELSE [tx EXCEPT !.rows = {}, !.result = {}, !.rowcount = Cardinality(tx.rows)]

\* Mutant: a DELETE that matches no row raises.
ExecDelete_RaisesOnMiss(tx0, id) ==
  LET tx == Send(tx0) IN
  IF tx.exc # "none" THEN tx
  ELSE LET hit == { r \in tx.rows : r.id = id } IN
       IF hit = {} THEN [tx EXCEPT !.exc = "ProgrammingError"]
       ELSE [tx EXCEPT !.rows = @ \ hit, !.result = {},
                       !.rowcount = Cardinality(hit)]

\* DELETE FROM restaurants WHERE id = %s
ExecDelete(tx0, id) ==
  LET tx == Send(tx0) IN
  IF tx.exc # "none" THEN tx
  ELSE LET hit == { r \in tx.rows : r.id = id } IN
       [tx EXCEPT !.rows = @ \ hit, !.result = {}, !.rowcount = Cardinality(hit)]

\* Mutant: the UPDATE stamps the row with the time of the update.
ExecUpdate_Stamps(tx0, vals, id) ==
  LET tx == Send(tx0) IN
  IF tx.exc # "none" THEN tx
  ELSE IF TooLong(vals) THEN [tx EXCEPT !.exc = "DataError"]
  ELSE LET hit == { r \in tx.rows : r.id = id }
           new == { [r EXCEPT !.zone = vals.zone, !.name = vals.name,
                              !.address = vals.address, !.type = vals.type,
                              !.phone = vals.phone, !.created_at = tx.t]
                    : r \in hit }
       IN IF hit # {} /\ NotNullViolated(vals)
          THEN [tx EXCEPT !.exc = "IntegrityError"]
          ELSE [tx EXCEPT !.rows = (@ \ hit) \cup new, !.result = new,
                          !.rowcount = Cardinality(hit)]

\* Mutant: the UPDATE leaves type and phone as stored.
ExecUpdate_KeepsTypePhone(tx0, vals, id) ==
  LET tx == Send(tx0) IN
  IF tx.exc # "none" THEN tx
  ELSE IF TooLong(vals) THEN [tx EXCEPT !.exc = "DataError"]
  ELSE LET hit == { r \in tx.rows : r.id = id }
           new == { [r EXCEPT !.zone = vals.zone, !.name = vals.name,
                              !.address = vals.address] : r \in hit }
       IN IF hit # {} /\ NotNullViolated(vals)
          THEN [tx EXCEPT !.exc = "IntegrityError"]
          ELSE [tx EXCEPT !.rows = (@ \ hit) \cup new, !.result = new,
                          !.rowcount = Cardinality(hit)]

\* UPDATE restaurants SET zone = %s, name = %s, address = %s, type = %s,
\*   phone = %s WHERE id = %s RETURNING id, zone, name, address, type, phone
ExecUpdate(tx0, vals, id) ==
  LET tx == Send(tx0) IN
  IF tx.exc # "none" THEN tx
  ELSE IF TooLong(vals) THEN [tx EXCEPT !.exc = "DataError"]
  ELSE LET hit == { r \in tx.rows : r.id = id }
           new == { [r EXCEPT !.zone = vals.zone, !.name = vals.name,
                              !.address = vals.address, !.type = vals.type,
                              !.phone = vals.phone] : r \in hit }
       IN IF hit # {} /\ NotNullViolated(vals)
          THEN [tx EXCEPT !.exc = "IntegrityError"]
          ELSE [tx EXCEPT !.rows = (@ \ hit) \cup new, !.result = new,
                          !.rowcount = Cardinality(hit)]

\* ORDER BY zone, name: the orders in which the rows may come back.  Rows
\* that agree on zone and name come back in whatever order the sort leaves
\* them.
Before(a, b) ==
  \/ Collate(a.zone) < Collate(b.zone)
  \/ a.zone = b.zone /\ Collate(a.name) <= Collate(b.name)

OrderBy(rows) ==
  { s \in [1..Cardinality(rows) -> rows] :
      /\ \A i, j \in DOMAIN s : i # j => s[i] # s[j]
      /\ \A i, j \in DOMAIN s : i < j => Before(s[i], s[j]) }

\* dict(row) of a RealDictCursor row of
\*   SELECT / RETURNING id, zone, name, address, type, phone
RowDict(r) ==
  [id |-> r.id, zone |-> r.zone, name |-> r.name, address |-> r.address,
   type |-> r.type, phone |-> r.phone]


\* ------------------------------------------------------------ the handlers
None == "None"
Open == "open"
Closed == "closed"

Configured == DATABASE_URL # "" /\ HAS_DB

\* get_db_connection(): connect says whether psycopg2.connect succeeds.
get_db_connection(connect) ==
  IF DATABASE_URL = "" \/ ~HAS_DB THEN None
  ELSE IF connect THEN Open
  ELSE None

\* init_database(), run once at startup when a database is configured.
init_database(connect) ==
  IF get_db_connection(connect) = None THEN FALSE ELSE TRUE

\* read_body(): the request body parsed as JSON ({} for an empty body).
read_body(body) ==
  IF "malformed" \in DOMAIN body
  THEN [exc |-> "JSONDecodeError", data |-> EmptyDict]
  ELSE [exc |-> "none", data |-> body]

\* Mutant: data.get('type') and data.get('phone') without their defaults.
Params_NoDefaults(d) ==
  IF ~IsDict(d) THEN [exc |-> "AttributeError", vals |-> EmptyDict]
  ELSE IF "name" \notin DOMAIN d \/ "address" \notin DOMAIN d
       THEN [exc |-> "KeyError", vals |-> EmptyDict]
  ELSE [exc |-> "none",
        vals |-> [zone |-> Get(d, "zone", "1"), name |-> d["name"],
                  address |-> d["address"],
                  type |-> Get(d, "type", NULL),
                  phone |-> Get(d, "phone", NULL)]]

\* The parameter tuple of add_restaurant, bulk_add_restaurants and
\* update_restaurant: d['name'] and d['address'] raise KeyError when missing.
Params(d) ==
  IF ~IsDict(d) THEN [exc |-> "AttributeError", vals |-> EmptyDict]
  ELSE IF "name" \notin DOMAIN d \/ "address" \notin DOMAIN d
       THEN [exc |-> "KeyError", vals |-> EmptyDict]
  ELSE [exc |-> "none",
        vals |-> [zone |-> Get(d, "zone", "1"), name |-> d["name"],
                  address |-> d["address"],
                  type |-> Get(d, "type", "Restaurant"),
                  phone |-> Get(d, "phone", "")]]

\* Mutant: sync_from_client stores the default phone whatever the record says.
SyncParams_NoPhone(d) ==
  IF ~IsDict(d) THEN [exc |-> "AttributeError", vals |-> EmptyDict]
  ELSE [exc |-> "none",
        vals |-> [zone |-> Get(d, "zone", "1"), name |-> Get(d, "name", ""),
                  address |-> Get(d, "address", ""),
                  type |-> Get(d, "type", "Restaurant"),
                  phone |-> ""]]

\* The parameter tuple of sync_from_client: every field has a default.
SyncParams(d) ==
  IF ~IsDict(d) THEN [exc |-> "AttributeError", vals |-> EmptyDict]
  ELSE [exc |-> "none",
        vals |-> [zone |-> Get(d, "zone", "1"), name |-> Get(d, "name", ""),
                  address |-> Get(d, "address", ""),
                  type |-> Get(d, "type", "Restaurant"),
                  phone |-> Get(d, "phone", "")]]

Raise(tx, exc) == IF tx.exc # "none" THEN tx ELSE [tx EXCEPT !.exc = exc]

\* for r in restaurants: cur.execute(INSERT ...); count += 1
RECURSIVE InsertEach(_, _, _, _)
InsertEach(tx, list, i, strict) ==
  IF tx.exc # "none" \/ i > Len(list) THEN tx
  ELSE LET p == IF strict THEN Params(list[i]) ELSE SyncParams(list[i]) IN
       IF p.exc # "none" THEN Raise(tx, p.exc)
       ELSE InsertEach(ExecInsert(tx, p.vals), list, i + 1, strict)

\* Mutant: every statement is committed as it is executed, so a handler that
\* raises leaves what it did before in the table.
send_json_Autocommit(r, tx, committed, data, status, c) ==
  /\ req' = r
  /\ resp' = [status |-> status, json |-> data]
  /\ conn' = c
  /\ restaurants' = tx.rows
  /\ restaurants_id_seq' = tx.seq
  /\ now' = IF c = None \/ now = MaxTime THEN now ELSE now + 1
  /\ UNCHANGED << HAS_DB, DATABASE_URL, table_exists >>

\* send_json(data, status), with what becomes of the transaction: a handler
\* that reached conn.commit() leaves tx.rows in the table, one that raised
\* leaves the table as it was; the sequence keeps what was drawn from it.
send_json(r, tx, committed, data, status, c) ==
  /\ req' = r
  /\ resp' = [status |-> status, json |-> data]
  /\ conn' = c
  /\ restaurants' = IF committed THEN tx.rows ELSE restaurants
  /\ restaurants_id_seq' = tx.seq
  /\ now' = IF c = None \/ now = MaxTime THEN now ELSE now + 1
  /\ UNCHANGED << HAS_DB, DATABASE_URL, table_exists >>

\* except Exception as e: return self.send_json({'error': str(e)}, 500)
Except(r, tx) ==
  send_json(r, tx, FALSE, [error |-> tx.exc], 500, Open)

\* Mutant: no connection is answered as a success.
NoDatabase_Ok(r, tx) ==
  send_json(r, tx, FALSE, [message |-> "No database"], 200, None)

NoDatabase(r, tx) ==
  send_json(r, tx, FALSE, [error |-> "No database"], 500, None)

Request(op, seg, body, connect, faultAt) ==
  [op |-> op, seg |-> seg, body |-> body, connect |-> connect, faultAt |-> faultAt]

\* GET /api/restaurants
get_restaurants(connect, faultAt) ==
  LET r  == Request("list", <<>>, EmptyDict, connect, faultAt)
      tx == Send(Begin(faultAt))
  IN IF get_db_connection(connect) = None
     THEN send_json(r, Begin(0), FALSE,
                    [error |-> "No database", data |-> <<>>], 200, None)
     ELSE IF tx.exc # "none"
     THEN send_json(r, tx, FALSE, [error |-> tx.exc, data |-> <<>>], 500, Open)
     ELSE \E rows \in OrderBy(tx.rows) :
            send_json(r, tx, FALSE,
                      [data |-> [i \in 1..Len(rows) |-> RowDict(rows[i])]],
                      200, Closed)

\* GET /api/health
\* The handler does not connect; connect records whether a connection could
\* have been had when it answered.
health(connect) ==
  send_json(Request("health", <<>>, EmptyDict, connect, 0), Begin(0), FALSE,
            [status |-> "ok", database |-> (DATABASE_URL # "" /\ HAS_DB)],
            200, None)

\* POST /api/restaurants
add_restaurant(body, connect, faultAt) ==
  LET r    == Request("add", <<>>, body, connect, faultAt)
      b    == read_body(body)
      p    == Params(b.data)
      tx0  == Begin(faultAt)
      tx   == IF b.exc # "none" THEN Raise(tx0, b.exc)
              ELSE IF p.exc # "none" THEN Raise(tx0, p.exc)
              ELSE ExecInsert(tx0, p.vals)
  IN IF get_db_connection(connect) = None THEN NoDatabase(r, tx0)
     ELSE IF tx.exc # "none" THEN Except(r, tx)
     ELSE \E row \in tx.result :
            send_json(r, tx, TRUE, [data |-> RowDict(row)], 201, Closed)

\* Mutant: the table is wiped whatever the flag.
Wipe_Always(tx, replace) == ExecDeleteAll(tx)

\* if replace: cur.execute('DELETE FROM restaurants')
Wipe(tx, replace) == IF replace THEN ExecDeleteAll(tx) ELSE tx

\* POST /api/restaurants/bulk
bulk_add_restaurants(body, connect, faultAt) ==
  LET r    == Request("bulk", <<>>, body, connect, faultAt)
      b    == read_body(body)
      tx0  == Begin(faultAt)
      list == Get(b.data, "restaurants", <<>>)
      replace == Get(b.data, "replace", FALSE)
      tx   == IF b.exc # "none" THEN Raise(tx0, b.exc)
              ELSE IF ~IsDict(b.data) THEN Raise(tx0, "AttributeError")
              ELSE InsertEach(Wipe(tx0, replace), list, 1, TRUE)
  IN IF get_db_connection(connect) = None THEN NoDatabase(r, tx0)
     ELSE IF tx.exc # "none" THEN Except(r, tx)
     ELSE send_json(r, tx, TRUE,
                    [message |-> "restaurants added", count |-> Len(list)],
                    201, Closed)

\* POST /api/sync
sync_from_client(body, connect, faultAt) ==
  LET r    == Request("sync", <<>>, body, connect, faultAt)
      b    == read_body(body)
      tx0  == Begin(faultAt)
      list == Get(b.data, "restaurants", <<>>)
      tx   == IF b.exc # "none" THEN Raise(tx0, b.exc)
              ELSE IF ~IsDict(b.data) THEN Raise(tx0, "AttributeError")
              ELSE InsertEach(ExecDeleteAll(tx0), list, 1, FALSE)
  IN IF get_db_connection(connect) = None THEN NoDatabase(r, tx0)
     ELSE IF tx.exc # "none" THEN Except(r, tx)
     ELSE send_json(r, tx, TRUE,
                    [message |-> "Synced", count |-> Len(list)], 200, Closed)

\* PUT /api/restaurants/<id>
update_restaurant(seg, body, connect, faultAt) ==
  LET r    == Request("update", seg, body, connect, faultAt)
      id   == ParseInt(seg)
      b    == read_body(body)
      p    == Params(b.data)
      tx0  == Begin(faultAt)
      tx   == IF id.exc # "none" THEN Raise(tx0, id.exc)
              ELSE IF b.exc # "none" THEN Raise(tx0, b.exc)
              ELSE IF p.exc # "none" THEN Raise(tx0, p.exc)
              ELSE ExecUpdate(tx0, p.vals, id.value)
  IN IF get_db_connection(connect) = None THEN NoDatabase(r, tx0)
     ELSE IF tx.exc # "none" THEN Except(r, tx)
     ELSE IF tx.result # {}
     THEN \E row \in tx.result :
            send_json(r, tx, TRUE, [data |-> RowDict(row)], 200, Closed)
     ELSE send_json(r, tx, TRUE, [error |-> "Not found"], 404, Closed)

\* DELETE /api/restaurants/<id>
delete_restaurant(seg, connect, faultAt) ==
  LET r    == Request("delete", seg, EmptyDict, connect, faultAt)
      id   == ParseInt(seg)
      tx0  == Begin(faultAt)
      tx   == IF id.exc # "none" THEN Raise(tx0, id.exc)
              ELSE ExecDelete(tx0, id.value)
  IN IF get_db_connection(connect) = None THEN NoDatabase(r, tx0)
     ELSE IF tx.exc # "none" THEN Except(r, tx)
     ELSE IF tx.rowcount # 0
     THEN send_json(r, tx, TRUE, [message |-> "Deleted"], 200, Closed)
     ELSE send_json(r, tx, TRUE, [error |-> "Not found"], 404, Closed)

\* DELETE /api/restaurants
delete_all_restaurants(connect, faultAt) ==
  LET r    == Request("delete_all", <<>>, EmptyDict, connect, faultAt)
      tx0  == Begin(faultAt)
      tx   == ExecDeleteAll(tx0)
  IN IF get_db_connection(connect) = None THEN NoDatabase(r, tx0)
     ELSE IF tx.exc # "none" THEN Except(r, tx)
     ELSE send_json(r, tx, TRUE, [message |-> "All deleted"], 200, Closed)

\* ------------------------------------------------------------ the requests
Lists == UNION { [1..n -> ListDrafts] : n \in 0..MaxLen }

ListBodies ==
  { [restaurants |-> l] : l \in Lists }
    \cup { [restaurants |-> l, replace |-> TRUE] : l \in Lists }
    \cup { EmptyDict, NotADict, Malformed }

DraftBodies == Drafts \cup { Malformed }

\* What the store does to a request: no connection (FALSE), or a connection
\* and the statement at which it fails (0: never).  The failures are tried on
\* one request of each kind, the probe.
Served == << TRUE, 0 >>

Outcomes(body, probe) ==
  IF body = probe
  THEN { << FALSE, 0 >>, Served } \cup { << TRUE, f >> : f \in 1..(MaxLen + 1) }
  ELSE { Served }

ListProbe == [restaurants |-> << DraftA >>, replace |-> TRUE]

\* The sequence stays within MaxId whatever the request inserts.
Room(body) ==
  restaurants_id_seq + (IF "restaurants" \in DOMAIN body
                        THEN Len(body.restaurants) ELSE 1) <= MaxId

\* The server after init_database(), before its first request.
ServerInit ==
  /\ HAS_DB \in BOOLEAN
  /\ DATABASE_URL \in {"", Url}
  /\ \E connect \in BOOLEAN :
       table_exists = (DATABASE_URL # "" /\ HAS_DB /\ init_database(connect))
  /\ restaurants = {}
  /\ restaurants_id_seq = 0
  /\ now = 0
  /\ req = Request("none", <<>>, EmptyDict, FALSE, 0)
  /\ resp = [status |-> 0, json |-> EmptyDict]
  /\ conn = None

\* No request is being followed statement by statement, nobody has looked.
Idle == [phase |-> "idle"]

NotObserved == [valid |-> FALSE, rows |-> {}]

NoStatements ==
  /\ inflight = Idle
  /\ observed = NotObserved

\* generate_maps.py is a script of its own: it is not running.
NoCall == [caller |-> "none"]

NoCoords == [exc |-> "none", angle |-> 0, radius |-> 0,
             offset |-> [num |-> 0, den |-> 1]]

NoMaps ==
  /\ zones = EmptyDict
  /\ work = <<>>
  /\ idx = 0
  /\ call = NoCall
  /\ coords = NoCoords

Init == ServerInit /\ NoStatements /\ NoMaps

\* A request the server handles from its first line to its response.
Whole == UNCHANGED << stepvars, mapvars >>

List ==
  /\ \E o \in Outcomes(EmptyDict, EmptyDict) : get_restaurants(o[1], o[2])
  /\ Whole

Health ==
  /\ \E connect \in BOOLEAN : health(connect)
  /\ Whole

Add ==
  /\ \E body \in DraftBodies : \E o \in Outcomes(body, DraftA) :
       Room(body) /\ add_restaurant(body, o[1], o[2])
  /\ Whole

Bulk ==
  /\ \E body \in ListBodies : \E o \in Outcomes(body, ListProbe) :
       Room(body) /\ bulk_add_restaurants(body, o[1], o[2])
  /\ Whole

Sync ==
  /\ \E body \in ListBodies : \E o \in Outcomes(body, ListProbe) :
       Room(body) /\ sync_from_client(body, o[1], o[2])
  /\ Whole

Update ==
  /\ \E seg \in Segments, body \in UpdateDrafts \cup { Malformed } :
       \E o \in Outcomes(<< seg, body >>, << <<"1">>, DraftA >>) :
         update_restaurant(seg, body, o[1], o[2])
  /\ Whole

Delete ==
  /\ \E seg \in Segments : \E o \in Outcomes(seg, <<"1">>) :
       delete_restaurant(seg, o[1], o[2])
  /\ Whole

DeleteAll ==
  /\ \E o \in Outcomes(EmptyDict, EmptyDict) : delete_all_restaurants(o[1], o[2])
  /\ Whole

Next ==
  \/ List
  \/ Health
  \/ Add
  \/ Bulk
  \/ Sync
  \/ Update
  \/ Delete
  \/ DeleteAll

Spec == Init /\ [][Next]_vars

\* The client sends back to /api/sync the records GET /api/restaurants has
\* just answered, ids included.
SyncListed ==
  /\ req.op = "list"
  /\ resp.status = 200
  /\ restaurants_id_seq + Len(resp.json.data) <= MaxSeq
  /\ sync_from_client([restaurants |-> resp.json.data], req.connect, 0)
  /\ Whole

RoundTripNext ==
  \/ Next
  \/ SyncListed

SpecRoundTrip == Init /\ [][RoundTripNext]_vars


\* ------------------------------------------- a list request, by statement
\* bulk_add_restaurants and sync_from_client followed one cur.execute at a
\* time, with another session reading the table in between.

\* Mutant: the connection is in autocommit mode, every statement is seen by
\* the other sessions as soon as it is executed.
Visible_Autocommit(table, tx) == tx.rows

\* What the other sessions see of the table while the transaction tx is open:
\* the connection is opened without autocommit, so nothing of tx.
Visible(table, tx) == table

\* From the handler's first line to the statement before its first execute.
StepBegin ==
  \E op \in {"bulk", "sync"}, body \in ListBodies :
    \E o \in Outcomes(body, ListProbe) :
      LET r    == Request(op, <<>>, body, o[1], o[2])
          b    == read_body(body)
          tx0  == Begin(o[2])
          list == Get(b.data, "restaurants", <<>>)
          wipe == op = "sync" \/ Get(b.data, "replace", FALSE) = TRUE
          tx   == IF b.exc # "none" THEN Raise(tx0, b.exc)
                  ELSE IF ~IsDict(b.data) THEN Raise(tx0, "AttributeError")
                  ELSE tx0
      IN /\ inflight.phase # "running"
         /\ Room(body)
         /\ IF get_db_connection(o[1]) = None
            THEN NoDatabase(r, tx0) /\ UNCHANGED << stepvars, mapvars >>
            ELSE /\ inflight' = [phase |-> "running", r |-> r, list |-> list,
                                 strict |-> (op = "bulk"), replaces |-> wipe,
                                 wipe |-> wipe, i |-> 1, tx |-> tx,
                                 old |-> restaurants]
                 /\ observed' = NotObserved
                 /\ UNCHANGED << srvvars, mapvars >>

\* The next cur.execute: the DELETE of a replacing request, then one INSERT
\* for each record of the list.
StepExecute ==
  /\ inflight.phase = "running"
  /\ inflight.tx.exc = "none"
  /\ inflight.wipe \/ inflight.i <= Len(inflight.list)
  /\ LET d  == inflight.list[inflight.i]
         p  == IF inflight.strict THEN Params(d) ELSE SyncParams(d)
         tx == IF inflight.wipe THEN ExecDeleteAll(inflight.tx)
               ELSE IF p.exc # "none" THEN Raise(inflight.tx, p.exc)
               ELSE ExecInsert(inflight.tx, p.vals)
     IN /\ inflight' = [inflight EXCEPT
                          !.tx = tx, !.wipe = FALSE,
                          !.i = IF inflight.wipe THEN @ ELSE @ + 1]
        /\ restaurants' = Visible(restaurants, tx)
        /\ restaurants_id_seq' = tx.seq
  /\ UNCHANGED << HAS_DB, DATABASE_URL, table_exists, now, req, resp, conn,
                  observed, mapvars >>

\* conn.commit(), close and the response.
StepCommit ==
  /\ inflight.phase = "running"
  /\ inflight.tx.exc = "none"
  /\ ~inflight.wipe
  /\ inflight.i > Len(inflight.list)
  /\ IF inflight.strict
     THEN send_json(inflight.r, inflight.tx, TRUE,
                    [message |-> "restaurants added",
                     count |-> Len(inflight.list)], 201, Closed)
     ELSE send_json(inflight.r, inflight.tx, TRUE,
                    [message |-> "Synced", count |-> Len(inflight.list)],
                    200, Closed)
  /\ inflight' = [inflight EXCEPT !.phase = "committed"]
  /\ UNCHANGED << observed, mapvars >>

\* The except clause, reached from whichever statement raised.
StepExcept ==
  /\ inflight.phase = "running"
  /\ inflight.tx.exc # "none"
  /\ Except(inflight.r, inflight.tx)
  /\ inflight' = [inflight EXCEPT !.phase = "failed"]
  /\ UNCHANGED << observed, mapvars >>

\* Another session lists the table.
Observe ==
  /\ observed' = [valid |-> TRUE, rows |-> restaurants]
  /\ UNCHANGED << srvvars, inflight, mapvars >>

StepNext ==
  \/ StepBegin
  \/ StepExecute
  \/ StepCommit
  \/ StepExcept
  \/ Observe

SpecSteps == Init /\ [][StepNext]_vars


\* ------------------------------------------------------- generate_maps.py
\* The script reads restaurants by zone and places each on a map.  md5 itself
\* is not modelled: a restaurant stands for the first eight hex digits of the
\* digest of its name and address, most significant digit first.  The centre
\* of the zone and the cosine and sine that turn (radius, angle) into
\* (lat, lng) are left out.
Hex == 0..(HEX_BASE - 1)

\* hexdigest()[:8] of the digest whose first 32 bits are n, for n < 16^7.
Hex8(n) == [i \in 1..HEX_DIGITS |-> (n \div (HEX_BASE ^ (HEX_DIGITS - i))) % HEX_BASE]

\* The digest with every bit flipped.
Flip(digest) == [i \in 1..HEX_DIGITS |-> (HEX_BASE - 1) - digest[i]]

\* The digests tried: the lowest and the highest of the 32-bit range.
Digests == { Hex8(n) : n \in 0..MaxDigest } \cup { Flip(Hex8(n)) : n \in 0..MaxDigest }

\* int(digits, 16) % m, digit by digit.
RECURSIVE HexMod(_, _, _)
HexMod(digits, i, m) ==
  IF i = 0 THEN 0
  ELSE (HexMod(digits, i - 1, m) * HEX_BASE + digits[i]) % m

\* 0.005 degrees, in units of 1/50000 degree.
RADIUS_BASE == (5 * RADIUS_UNIT) \div 1000

\* Mutant: the radius is taken modulo a number past RADIUS_STEPS.
generate_pseudo_coordinates_Wide(digest, index, total) ==
  [exc |-> IF total = 0 THEN "ZeroDivisionError" ELSE "none",
   angle |-> HexMod(digest, HEX_DIGITS, DEGREES),
   radius |-> RADIUS_BASE + HexMod(digest, HEX_DIGITS, RADIUS_STEPS + RADIUS_BASE),
   offset |-> [num |-> index * DEGREES, den |-> IF total = 0 THEN 1 ELSE total]]

\* generate_pseudo_coordinates(name, address, center, index, total): the
\* angle before the offset in degrees, the radius in units of 1/50000 degree,
\* and the offset (index / total) of a full turn, in degrees, as a fraction.
generate_pseudo_coordinates(digest, index, total) ==
  LET angle  == HexMod(digest, HEX_DIGITS, DEGREES)
      radius == RADIUS_BASE + HexMod(digest, HEX_DIGITS, RADIUS_STEPS)
  IN IF total = 0
     THEN [exc |-> "ZeroDivisionError", angle |-> angle, radius |-> radius,
           offset |-> [num |-> 0, den |-> 1]]
     ELSE [exc |-> "none", angle |-> angle, radius |-> radius,
           offset |-> [num |-> index * DEGREES, den |-> total]]

\* One call of the function on arguments of its precondition.
Calls ==
  { [caller |-> "derive", digest |-> d, index |-> i, total |-> t] :
      d \in Digests, i \in 0..(MaxBatch - 1), t \in 1..MaxBatch }

\* The server is not part of the script.
NoServer == ServerInit /\ ~HAS_DB /\ DATABASE_URL = ""

DeriveInit ==
  /\ NoServer
  /\ NoStatements
  /\ zones = EmptyDict
  /\ work = <<>>
  /\ idx = 0
  /\ call \in { c \in Calls : c.index < c.total }
  /\ coords = NoCoords

Derive ==
  /\ call.caller = "derive"
  /\ coords' = generate_pseudo_coordinates(call.digest, call.index, call.total)
  /\ UNCHANGED << srvvars, stepvars, zones, work, idx, call >>

DeriveNext == Derive

SpecDerive == DeriveInit /\ [][DeriveNext]_vars

\* read_csv_data(): the rows of the CSV by zone; a zone is a key of the dict
\* once a row of it was appended, so no list is empty.
ZoneCodes == {"1", "2"}

MapDigests == { Hex8(0), Flip(Hex8(0)) }

Batches == UNION { [1..n -> MapDigests] : n \in 1..MaxBatch }

read_csv_data == UNION { [Z -> Batches] : Z \in SUBSET ZoneCodes }

\* sorted(zones.keys())
RECURSIVE Sorted(_)
Sorted(keys) ==
  IF keys = {} THEN <<>>
  ELSE LET first == CHOOSE k \in keys : \A j \in keys : Collate(k) <= Collate(j)
       IN << first >> \o Sorted(keys \ {first})

\* Mutant: enumerate(restaurants, 1).
enumerate_FromOne(list) ==
  [i \in 1..Len(list) |-> [idx |-> i, restaurant |-> list[i]]]

\* enumerate(restaurants)
enumerate(list) ==
  [i \in 1..Len(list) |-> [idx |-> i - 1, restaurant |-> list[i]]]

\* main(): the overview map over the sorted zones, then a map for each zone.
main ==
  LET keys == Sorted(DOMAIN zones)
  IN [i \in 1..Len(keys) |-> << "create_overview_map", keys[i] >>]
       \o [i \in 1..Len(keys) |-> << "create_zone_map", keys[i] >>]

MapsInit ==
  /\ NoServer
  /\ NoStatements
  /\ zones \in read_csv_data
  /\ work = main
  /\ idx = 0
  /\ call = NoCall
  /\ coords = NoCoords

\* One turn of `for idx, restaurant in enumerate(restaurants)` in the map
\* drawn now, or the end of that loop.
Marker(caller) ==
  /\ LET restaurants_ == zones[Head(work)[2]]
         pairs == enumerate(restaurants_)
     IN IF idx < Len(pairs)
        THEN /\ call' = [caller |-> caller,
                         digest |-> pairs[idx + 1].restaurant,
                         index |-> pairs[idx + 1].idx,
                         total |-> Len(restaurants_)]
             /\ coords' = generate_pseudo_coordinates(pairs[idx + 1].restaurant,
                                                      pairs[idx + 1].idx,
                                                      Len(restaurants_))
             /\ idx' = idx + 1
             /\ UNCHANGED work
        ELSE /\ work' = Tail(work)
             /\ idx' = 0
             /\ UNCHANGED << call, coords >>
  /\ UNCHANGED << srvvars, stepvars, zones >>

\* create_overview_map(zones, output_dir), called first by main()
create_overview_map ==
  /\ work # <<>>
  /\ Head(work)[1] = "create_overview_map"
  /\ Marker("create_overview_map")

\* create_zone_map(zone, restaurants, output_dir), called for each zone
create_zone_map ==
  /\ work # <<>>
  /\ Head(work)[1] = "create_zone_map"
  /\ Marker("create_zone_map")

MapsNext ==
  \/ create_overview_map
  \/ create_zone_map

SpecMaps == MapsInit /\ [][MapsNext]_vars


\* ------------------------------------------------------------------ claims
\* What the claims read off a request and its response.
Submitted == Get(req.body, "restaurants", <<>>)
SubmittedNext == Get(req'.body, "restaurants", <<>>)

Optional == [zone |-> "1", type |-> "Restaurant", phone |-> ""]

\* The row holds the draft's fields as given, and the default of every
\* optional field the draft leaves out.
Holds(row, d) ==
  \A k \in Columns :
    /\ k \in DOMAIN d => row[k] = d[k]
    /\ (k \notin DOMAIN d /\ k \in DOMAIN Optional) => row[k] = Optional[k]

\* The rows are the drafts of the list, one row for each.
OnePerDraft(rows, list) ==
  /\ Cardinality(rows) = Len(list)
  /\ \E f \in [1..Len(list) -> rows] :
       /\ \A i, j \in 1..Len(list) : i # j => f[i] # f[j]
       /\ \A i \in 1..Len(list) : Holds(f[i], list[i])

\* The store answered every statement of the request handled last.
StorageServed(r) ==
  Configured /\ table_exists /\ r.connect /\ r.faultAt = 0

\* A draft the table can hold: name and address given, every given field a
\* string that fits its column.
Storable(d) ==
  /\ IsDict(d)
  /\ "name" \in DOMAIN d /\ "address" \in DOMAIN d
  /\ \A k \in DOMAIN d \cap Columns : d[k] # NULL
  /\ ~TooLong([k \in Columns |-> Get(d, k, "")])

\* C1: after a successful sync the table holds exactly one row for each
\* submitted record, with the submitted fields and the defaults of the
\* optional fields left out, no row stored before the sync is left, and the
\* count returned is the length of the list.
C1_SyncReplaces ==
  [][ (req'.op = "sync" /\ resp'.status = 200) =>
        /\ resp'.json.count = Len(SubmittedNext)
        /\ OnePerDraft(restaurants', SubmittedNext)
        /\ restaurants' \cap restaurants = {}
        /\ Ids(restaurants') \cap Ids(restaurants) = {} ]_vars

\* A sync of one record went through after an id had already been drawn:
\* the earlier row is gone and the one row left is the submitted one.
C1_Witness ==
  /\ req.op = "sync" /\ resp.status = 200
  /\ Len(Submitted) = 1
  /\ restaurants_id_seq = 2
  /\ Ids(restaurants) = {2}

\* C2: list returns every stored row exactly once, sorted by zone, then by
\* name, and rows that agree on zone and name in ascending id order.
ListedOnce ==
  /\ Len(resp.json.data) = Cardinality(restaurants)
  /\ { resp.json.data[i] : i \in 1..Len(resp.json.data) }
       = { RowDict(r) : r \in restaurants }

ListedInOrder ==
  \A i, j \in 1..Len(resp.json.data) :
    i < j =>
      LET a == resp.json.data[i]
          b == resp.json.data[j]
      IN \/ Collate(a.zone) < Collate(b.zone)
         \/ a.zone = b.zone /\ Collate(a.name) < Collate(b.name)
         \/ a.zone = b.zone /\ a.name = b.name /\ a.id < b.id

C2_ListOrdered ==
  (req.op = "list" /\ resp.status = 200 /\ "error" \notin DOMAIN resp.json) =>
    ListedOnce /\ ListedInOrder

\* C3: a create with name and address stores and returns a row with a
\* positive id, the fields given and "1", "Restaurant", "" for the fields left
\* out; it goes through whenever the store serves it and the draft fits.
C3_CreateDefaults ==
  /\ (req.op = "add" /\ StorageServed(req) /\ Storable(req.body)) =>
       resp.status = 201
  /\ (req.op = "add" /\ resp.status = 201) =>
       /\ resp.json.data.id >= 1
       /\ Holds(resp.json.data, req.body)
       /\ "name" \in DOMAIN req.body /\ "address" \in DOMAIN req.body
       /\ \E r \in restaurants : RowDict(r) = resp.json.data

\* A create that gave only name and address went through.
C3_Witness ==
  /\ req.op = "add" /\ resp.status = 201
  /\ DOMAIN req.body = {"name", "address"}
  /\ resp.json.data.zone = "1"
  /\ resp.json.data.type = "Restaurant"
  /\ resp.json.data.phone = ""

\* C4: a successful bulk create with replace leaves exactly the rows of the
\* drafts; without replace it leaves every earlier row as it was and adds the
\* rows of the drafts; the count returned is the length of the list.
C4_BulkWipeFlag ==
  [][ (req'.op = "bulk" /\ resp'.status = 201) =>
        /\ resp'.json.count = Len(SubmittedNext)
        /\ IF Get(req'.body, "replace", FALSE)
           THEN /\ OnePerDraft(restaurants', SubmittedNext)
                /\ restaurants' \cap restaurants = {}
           ELSE /\ restaurants \subseteq restaurants'
                /\ OnePerDraft(restaurants' \ restaurants, SubmittedNext) ]_vars

\* A bulk create without replace added a row to a table that held one.
C4_Witness ==
  /\ req.op = "bulk" /\ resp.status = 201
  /\ "replace" \notin DOMAIN req.body
  /\ Len(Submitted) = 1
  /\ Cardinality(restaurants) = 2

\* C5: no two rows share an id; a row that is new in the table has an id
\* above every id drawn before; the sequence never goes back, so the id of a
\* deleted row is not drawn again; the i-th draft of a sync or bulk list gets
\* the i-th id drawn, whatever id the draft carries.
C5_IdsFresh ==
  [][ /\ \A a, b \in restaurants' : a.id = b.id => a = b
      /\ \A r \in restaurants' : r.id >= 1 /\ r.id <= restaurants_id_seq'
      /\ \A r \in restaurants' :
           r.id \notin Ids(restaurants) => r.id > restaurants_id_seq
      /\ restaurants_id_seq' >= restaurants_id_seq
      /\ (req'.op \in {"sync", "bulk"} /\ resp'.status \in {200, 201}) =>
           \A i \in 1..Len(SubmittedNext) :
             \E r \in restaurants' :
               /\ r.id = restaurants_id_seq + i
               /\ Holds(r, SubmittedNext[i]) ]_vars

\* A sync stored a draft that carried the id 1 after the id 1 had been drawn.
C5_Witness ==
  /\ req.op = "sync" /\ resp.status = 200
  /\ Len(Submitted) = 1 /\ "id" \in DOMAIN Submitted[1]
  /\ Submitted[1].id = 1
  /\ Ids(restaurants) = {2}

\* C6: every stored row has a non-empty zone, name and address.
C6_NeverEmpty ==
  \A r \in restaurants : r.zone # "" /\ r.name # "" /\ r.address # ""

\* C7: a create whose draft lacks name or address is answered with a client
\* error status (4xx), not the status of a storage failure.
C7_ValidationStatus ==
  ( /\ req.op = "add" /\ StorageServed(req) /\ IsDict(req.body)
    /\ ("name" \notin DOMAIN req.body \/ "address" \notin DOMAIN req.body) ) =>
    resp.status >= 400 /\ resp.status <= 499

\* C8: an update of an existing id with a draft that has name and address
\* sets zone, type and phone to the draft's value, or to "1", "Restaurant", ""
\* when the draft leaves them out, whatever was stored, and returns the row
\* as stored.
C8_UpdateResets ==
  [][ /\ ( /\ req'.op = "update" /\ StorageServed(req') /\ Storable(req'.body)
           /\ ParseInt(req'.seg).exc = "none"
           /\ ParseInt(req'.seg).value \in Ids(restaurants) ) =>
           resp'.status = 200
      /\ (req'.op = "update" /\ resp'.status = 200) =>
           /\ resp'.json.data.id = ParseInt(req'.seg).value
           /\ Holds(resp'.json.data, req'.body)
           /\ \E r \in restaurants' : RowDict(r) = resp'.json.data ]_vars

\* An update that left zone, type and phone out went through.
C8_Witness ==
  /\ req.op = "update" /\ resp.status = 200
  /\ req.body = DraftA
  /\ \E r \in restaurants :
       /\ r.id = ParseInt(req.seg).value
       /\ r.zone = "1" /\ r.type = "Restaurant" /\ r.phone = ""

\* C9: a delete, or an update with a draft the table can hold, of an id that
\* is not in the table is answered 404 and leaves the table as it was.
C9_NotFound ==
  [][ ( /\ req'.op \in {"delete", "update"}
        /\ StorageServed(req')
        /\ req'.op = "update" => Storable(req'.body)
        /\ ParseInt(req'.seg).exc = "none"
        /\ ParseInt(req'.seg).value \notin Ids(restaurants) ) =>
        /\ resp'.status = 404
        /\ resp'.json = [error |-> "Not found"]
        /\ restaurants' = restaurants ]_vars

\* A delete on an empty table was answered 404.
C9_Witness ==
  /\ req.op = "delete" /\ resp.status = 404
  /\ restaurants = {}

\* C10: when no connection can be had, list answers 200 with an empty data
\* list and the "No database" indicator, and every write answers with a
\* failure status and an error.
Writes == {"add", "bulk", "sync", "update", "delete", "delete_all"}

C10_NoStorage ==
  (get_db_connection(req.connect) = None) =>
    /\ req.op = "list" =>
         /\ resp.status = 200
         /\ resp.json = [error |-> "No database", data |-> <<>>]
    /\ req.op \in Writes =>
         /\ resp.status >= 400
         /\ "error" \in DOMAIN resp.json
         /\ "data" \notin DOMAIN resp.json

\* A sync was refused because the database could not be reached.
C10_Witness ==
  /\ req.op = "sync" /\ Configured /\ ~req.connect
  /\ resp.status = 500

\* The k-th draft of the list is the first that lacks name or address, and
\* the table can hold every draft before it.
FailsAt(list, k) ==
  /\ k \in 1..Len(list)
  /\ IsDict(list[k])
  /\ "name" \notin DOMAIN list[k] \/ "address" \notin DOMAIN list[k]
  /\ \A i \in 1..(k - 1) : Storable(list[i])

\* The ids the sequence gave to the n inserts made last.
LastIds(n) == (restaurants_id_seq - n + 1)..restaurants_id_seq

\* C11 as the specification states it: after a bulk request whose k-th draft
\* fails validation, the k-1 drafts inserted before it are in the table, each
\* under the id the sequence gave it, and with replace no older row is left.
C11_PartialRemains ==
  \A k \in 1..MaxLen :
    (req.op = "bulk" /\ StorageServed(req) /\ FailsAt(Submitted, k)) =>
      /\ \A i \in 1..(k - 1) :
           \E row \in restaurants :
             /\ row.id = restaurants_id_seq - (k - 1) + i
             /\ Holds(row, Submitted[i])
      /\ Get(req.body, "replace", FALSE) = TRUE =>
           Ids(restaurants) \subseteq LastIds(k - 1)

\* C11, amended: a bulk request whose k-th draft fails validation is answered
\* 500 and nothing of it is committed: the k-1 inserts made before the failure
\* and the wipe are rolled back and the table is as it was before the request;
\* only the k-1 ids drawn from the sequence stay used.
C11_BulkRollsBack ==
  [][ \A k \in 1..MaxLen :
        (req'.op = "bulk" /\ StorageServed(req') /\ FailsAt(SubmittedNext, k)) =>
          /\ resp'.status = 500
          /\ resp'.json = [error |-> "KeyError"]
          /\ restaurants' = restaurants
          /\ restaurants_id_seq' = restaurants_id_seq + (k - 1) ]_vars

\* A replacing bulk request inserted its first draft under id 1 and failed on
\* its second: the id is used and the row is not in the table.
C11_Witness ==
  /\ req.op = "bulk"
  /\ StorageServed(req)
  /\ FailsAt(Submitted, 2)
  /\ Get(req.body, "replace", FALSE) = TRUE
  /\ resp.status = 500
  /\ restaurants_id_seq = 1
  /\ restaurants = {}

\* The rows are the complete new dataset of the request followed: one row for
\* each record of its list, none of them a row stored before.
NewDataset(rows) ==
  /\ OnePerDraft(rows, inflight.list)
  /\ Ids(rows) \cap Ids(inflight.old) = {}

\* C12: whatever another session lists once a replacing request (sync, or
\* bulk with replace) has started, while it runs, after it committed or after
\* it failed part-way, is the complete dataset from before the request or the
\* complete new one, never an emptied or partly filled table.
C12_OldOrNew ==
  (inflight.phase # "idle" /\ inflight.replaces /\ observed.valid) =>
    \/ observed.rows = inflight.old
    \/ inflight.phase = "committed" /\ NewDataset(observed.rows)

\* Another session listed the table after the DELETE and the INSERT of a
\* running replace and read the row stored before it.
C12_Witness ==
  /\ inflight.phase = "running"
  /\ inflight.replaces
  /\ ~inflight.wipe
  /\ inflight.i = 2
  /\ inflight.old # {}
  /\ inflight.tx.rows # inflight.old
  /\ observed.valid
  /\ observed.rows = inflight.old

\* C13: when a handler sends its response, the connection it obtained from
\* get_db_connection() has been closed, whichever way the handler ends.
C13_Released == conn # Open

\* C14: health reports the database as available exactly when one is
\* configured and a connection could be had at that moment, so that a list
\* request in the same condition is not answered "No database".
C14_HealthReachable ==
  req.op = "health" => (resp.json.database = (Configured /\ req.connect))

\* C15: every answer of the store's operations with status 200 or 201 is an
\* object with a data field, every other one has status 404 or 500 and an
\* error field; the status of a success is 201 for add and bulk and 200 for
\* the other operations.
C15_ResponseShape ==
  req.op \notin {"none", "health"} =>
    /\ resp.status \in {200, 201, 404, 500}
    /\ resp.status \in {200, 201} =>
         /\ "data" \in DOMAIN resp.json
         /\ "error" \notin DOMAIN resp.json
         /\ resp.status = 201 <=> req.op \in {"add", "bulk"}
    /\ resp.status \in {404, 500} => "error" \in DOMAIN resp.json

\* C17: every row of the table has a type and a phone that are not NULL.
C17_TypePhonePresent ==
  \A row \in restaurants : row.type # NULL /\ row.phone # NULL

\* C18: an update answered 200 leaves the table with the same number of rows
\* and the same ids, every row of another id as it was, and the created_at of
\* the row it changed as it was; the record returned has the id asked for.
C18_UpdateFrame ==
  [][ (req'.op = "update" /\ resp'.status = 200) =>
        LET id == ParseInt(req'.seg).value IN
        /\ Cardinality(restaurants') = Cardinality(restaurants)
        /\ Ids(restaurants') = Ids(restaurants)
        /\ \A row \in restaurants : row.id # id => row \in restaurants'
        /\ \A row \in restaurants, new \in restaurants' :
             (row.id = id /\ new.id = id) => new.created_at = row.created_at
        /\ resp'.json.data.id = id ]_vars

\* Of two rows the one inserted at time 0 was updated at a later time to a
\* new name, and the other row is still there.
C18_Witness ==
  /\ req.op = "update" /\ resp.status = 200
  /\ Cardinality(restaurants) = 2
  /\ now = MaxTime
  /\ \E row \in restaurants :
       /\ row.id = ParseInt(req.seg).value
       /\ row.created_at = 0
       /\ row.name = "B"

\* int(digits, 16) % m from the two halves of the digits: the value is
\* hi * 16^4 + lo.
HalfValue(digits, from) ==
  LET n == HEX_DIGITS \div 2
      RECURSIVE Val(_)
      Val(i) == IF i = 0 THEN 0 ELSE Val(i - 1) * HEX_BASE + digits[from + i]
  IN Val(n)

ModOf(digits, m) ==
  LET n == HEX_DIGITS \div 2
  IN ((HalfValue(digits, 0) % m) * ((HEX_BASE ^ n) % m) + HalfValue(digits, n)) % m

\* C19: for the digest h of the call, the angle before the offset is h mod 360
\* degrees, within 0..359, and the radius in units of 1/50000 degree is
\* 250 + h mod 1000, within 250..1249, that is from 0.005 to below 0.025.
C19_Annulus ==
  (call.caller = "derive" /\ coords # NoCoords) =>
    /\ coords.angle = ModOf(call.digest, 360)
    /\ coords.angle \in 0..359
    /\ coords.radius = 250 + ModOf(call.digest, 1000)
    /\ coords.radius \in 250..1249
    /\ 1000 * coords.radius >= 5 * RADIUS_UNIT
    /\ 1000 * coords.radius < 25 * RADIUS_UNIT

\* A digest of the upper half of the 32-bit range was placed at the largest
\* radius.
C19_Witness ==
  /\ call.caller = "derive"
  /\ coords # NoCoords
  /\ call.digest[1] = 15
  /\ coords.radius = 1249

\* C20: every call made from create_zone_map and create_overview_map has
\* total >= 1 and 0 <= index < total, so index / total does not divide by
\* zero, and the offset of the only restaurant of a zone is 0.
C20_BatchPosition ==
  call.caller \in {"create_zone_map", "create_overview_map"} =>
    /\ call.total >= 1
    /\ 0 <= call.index /\ call.index < call.total
    /\ coords.exc = "none"
    /\ call.total = 1 => coords.offset.num = 0

\* create_zone_map placed the last restaurant of a zone of several.
C20_Witness ==
  /\ call.caller = "create_zone_map"
  /\ call.total > 1
  /\ call.index = call.total - 1
  /\ coords.exc = "none"

\* The zone, name, address, type and phone of a row or of a record.
Fields(r) == [k \in Columns |-> r[k]]

\* The rows and the records of the list hold the same values of Fields, each
\* as many times.
SameFields(rows, list) ==
  /\ Cardinality(rows) = Len(list)
  /\ \A row \in rows :
       Cardinality({ x \in rows : Fields(x) = Fields(row) })
         = Cardinality({ i \in 1..Len(list) : Fields(list[i]) = Fields(row) })

\* The records are shaped as list returns them.
AsListed(body) ==
  /\ IsDict(body)
  /\ "restaurants" \in DOMAIN body
  /\ \A i \in 1..Len(body.restaurants) :
       Columns \cup {"id"} \subseteq DOMAIN body.restaurants[i]

ZoneName(list) == [i \in 1..Len(list) |-> << list[i].zone, list[i].name >>]

\* C21: a sync of exactly the records a list has just returned, with the
\* store serving both, is answered 200 and leaves rows with the same values
\* of (zone, name, address, type, phone), each as many times, under ids that
\* are all new; and the list that follows such a sync returns those values
\* again, with the same sequence of (zone, name).
C21_RoundTrip ==
  [][ /\ ( /\ req.op = "list" /\ resp.status = 200 /\ StorageServed(req)
           /\ req'.op = "sync"
           /\ req'.body = [restaurants |-> resp.json.data]
           /\ StorageServed(req') ) =>
          /\ resp'.status = 200
          /\ resp'.json.count = Len(resp.json.data)
          /\ SameFields(restaurants, resp.json.data)
          /\ SameFields(restaurants', resp.json.data)
          /\ Ids(restaurants') \cap Ids(restaurants) = {}
      /\ ( /\ req.op = "sync" /\ resp.status = 200 /\ AsListed(req.body)
           /\ \E rows \in OrderBy(restaurants) :
                ZoneName(rows) = ZoneName(req.body.restaurants)
           /\ req'.op = "list" /\ StorageServed(req') ) =>
          /\ resp'.status = 200
          /\ SameFields(restaurants', resp'.json.data)
          /\ SameFields(restaurants', req.body.restaurants)
          /\ ZoneName(resp'.json.data) = ZoneName(req.body.restaurants) ]_vars

\* Two rows that agree on zone and name and differ in type went through a
\* sync of what list returned, under new ids, and were listed again.
C21_Witness ==
  /\ req.op = "list" /\ resp.status = 200
  /\ Len(resp.json.data) = 2
  /\ resp.json.data[1].name = resp.json.data[2].name
  /\ resp.json.data[1].zone = resp.json.data[2].zone
  /\ resp.json.data[1].type # resp.json.data[2].type
  /\ Ids(restaurants) = {3, 4}

====
